---- MODULE Spec2Model ----
(***************************************************************************)
(* windows-toolchain-builder: the dependency closure resolver              *)
(* (Program::build_package_tree), the bounded-concurrency download/extract *)
(* loop (Program::run, Program::process_package) and the per-entry filter  *)
(* and file writer (Program::extract_package), modelled from src/main.rs.  *)
(***************************************************************************)
EXTENDS Integers, Sequences, FiniteSets, TLC

VARIABLES
    repository,   \* Program.repository: package name -> its depends list
    package,      \* the root package name handed to Program::run
    parallelism,  \* Config.parallelism
    exclude,      \* Config.exclude
    include,      \* Config.include
    payload,      \* package name -> the entries of its archive on the server
    pc,           \* where Program::run is
    result,       \* what Program::run returned
    tree,         \* build_package_tree: let mut tree
    patch,        \* build_package_tree: let mut patch
    modified,     \* build_package_tree: let mut modified
    item,         \* build_package_tree: position of `for item in tree.iter()`
    dependency,   \* build_package_tree: position of `for dependency in deps`
    run_tree,     \* run: let tree = self.build_package_tree(package)?
    next,         \* run: position of the iterator under buffer_unordered
    stage,        \* per package job: where process_package is
    received,     \* per package job: chunks read by download_package
    file,         \* per package job: position of `for file in files.iter()`
    yielded,      \* the results download_stream has handed to the loop of run
    dirs,         \* output tree: the directories that exist
    disk          \* output tree: file path -> content

vars == <<repository, package, parallelism, exclude, include, payload, pc,
          result, tree, patch, modified, item, dependency, run_tree, next,
          stage, received, file, yielded, dirs, disk>>

inputs == <<repository, package, parallelism, exclude, include, payload>>
treeVars == <<tree, patch, modified, item, dependency>>
jobVars == <<next, stage, received, file, yielded>>
fsVars == <<dirs, disk>>

----------------------------------------------------------------------------
(* Bounds of the model *)

MaxDeps == 2          \* longest depends list of a package
MaxEdges == 4         \* dependency references in the whole index
MaxParallelism == 2   \* largest Config.parallelism tried
MaxPathLen == 3       \* longest archive entry path, in characters
MaxRules == 2         \* longest exclude / include list
TotalChunks == 1      \* chunks a download delivers before the stream ends

----------------------------------------------------------------------------
(* Small helpers *)

Range(s) == {s[i] : i \in 1..Len(s)}

SeqsUpTo(S, n) == UNION {[1..k -> S] : k \in 0..n}

NoRepeat(s) == \A i, k \in 1..Len(s) : i # k => s[i] # s[k]

RECURSIVE SumOver(_, _)
SumOver(f, S) ==
    IF S = {} THEN 0
    ELSE LET x == CHOOSE y \in S : TRUE IN f[x] + SumOver(f, S \ {x})

----------------------------------------------------------------------------
(* Results of Program::run and of one package job *)

NoResult == [tag |-> "none", what |-> ""]
Ok == [tag |-> "Ok", what |-> ""]
Err(kind, what) == [tag |-> kind, what |-> what]

\* ProgramError::PackageNotFound(name)
PackageNotFound(name) == Err("PackageNotFound", name)

----------------------------------------------------------------------------
(* The package index *)

Names == {"A", "B", "C", "D"}

\* A depends list: names, possibly of packages the index does not have.
DependsLists == {s \in SeqsUpTo(Names, MaxDeps) : NoRepeat(s)}

\* Repository::get_package_by_name: Some(package) iff the index has the name.
get_package_by_name(name) == name \in DOMAIN repository

\* Package.depends of a package of the index
depends(name) == repository[name]

\* The dependency references of an index
References(r) == SumOver([n \in DOMAIN r |-> Len(r[n])], DOMAIN r)

----------------------------------------------------------------------------
(* Program::build_package_tree, one step of its loops per action *)

\* `!tree.contains(package) && !patch.contains(package)`; a Package of the
\* index is identified by its name.
NotYetStagedTreeOnly(name) == name \notin Range(tree)
NotYetStagedPatchOnly(name) == name \notin Range(patch)
NotYetStaged(name) == name \notin Range(tree) /\ name \notin Range(patch)

\* `.ok_or_else(|| ProgramError::PackageNotFound(dependency.name.clone()))`
MissingDependencyOfItem(name) == PackageNotFound(tree[item])
MissingDependency(name) == PackageNotFound(name)

\* What run starts the stream with once the tree is known.
JobsOf(t) == [j \in 1..Len(t) |-> "unstarted"]
ZeroOf(t) == [j \in 1..Len(t) |-> 0]

\* run: `self.repository[package].to_owned()` (Index panics on a name the
\* index does not have), then the entry of build_package_tree up to the first
\* pass of its loop.
RunStart ==
    /\ pc = "start"
    /\ IF get_package_by_name(package)
         THEN /\ pc' = "scan"
              /\ tree' = <<package>>
              /\ patch' = <<>>
              /\ modified' = FALSE
              /\ item' = 1
              /\ dependency' = 1
         ELSE /\ pc' = "panicked"
              /\ UNCHANGED treeVars
    /\ UNCHANGED <<inputs, result, run_tree, jobVars, fsVars>>

\* One iteration of `for dependency in deps`: look the name up, `?` returns
\* the error of a missing one, otherwise stage it unless it is known.
ScanDependency ==
    /\ pc = "scan"
    /\ item <= Len(tree)
    /\ dependency <= Len(depends(tree[item]))
    /\ LET name == depends(tree[item])[dependency] IN
         IF ~get_package_by_name(name)
           THEN /\ result' = MissingDependency(name)
                /\ pc' = "done"
                /\ tree' = <<>>
                /\ patch' = <<>>
                /\ modified' = FALSE
                /\ item' = 0
                /\ dependency' = 0
           ELSE /\ IF NotYetStaged(name)
                     THEN patch' = Append(patch, name) /\ modified' = TRUE
                     ELSE UNCHANGED <<patch, modified>>
                /\ dependency' = dependency + 1
                /\ UNCHANGED <<pc, result, tree, item>>
    /\ UNCHANGED <<inputs, run_tree, jobVars, fsVars>>

\* `for item in tree.iter()` moves to the next item.
NextItem ==
    /\ pc = "scan"
    /\ item <= Len(tree)
    /\ dependency > Len(depends(tree[item]))
    /\ item' = item + 1
    /\ dependency' = 1
    /\ UNCHANGED <<inputs, pc, result, tree, patch, modified, run_tree,
                   jobVars, fsVars>>

\* End of a pass that staged something: `tree.append(&mut patch)`, loop again.
MergePatchKeepsModified ==
    /\ pc = "scan"
    /\ item > Len(tree)
    /\ modified
    /\ tree' = tree \o patch
    /\ patch' = <<>>
    /\ item' = 1
    /\ dependency' = 1
    /\ UNCHANGED <<inputs, pc, result, modified, run_tree, jobVars, fsVars>>

MergePatch ==
    /\ pc = "scan"
    /\ item > Len(tree)
    /\ modified
    /\ tree' = tree \o patch
    /\ patch' = <<>>
    /\ modified' = FALSE
    /\ item' = 1
    /\ dependency' = 1
    /\ UNCHANGED <<inputs, pc, result, run_tree, jobVars, fsVars>>

\* End of a pass that staged nothing: `break`, `Ok(tree)`; run builds the
\* stream of package jobs over the returned tree.
ReturnTreeAfterOnePass ==
    /\ pc = "scan"
    /\ item > Len(tree)
    /\ run_tree' = tree \o patch
    /\ pc' = "stream"
    /\ tree' = <<>>
    /\ patch' = <<>>
    /\ item' = 0
    /\ dependency' = 0
    /\ next' = 1
    /\ stage' = JobsOf(run_tree')
    /\ received' = ZeroOf(run_tree')
    /\ file' = ZeroOf(run_tree')
    /\ UNCHANGED <<inputs, result, modified, yielded, fsVars>>

ReturnTree ==
    /\ pc = "scan"
    /\ item > Len(tree)
    /\ ~modified
    /\ run_tree' = tree \o patch
    /\ pc' = "stream"
    /\ tree' = <<>>
    /\ patch' = <<>>
    /\ item' = 0
    /\ dependency' = 0
    /\ next' = 1
    /\ stage' = JobsOf(run_tree')
    /\ received' = ZeroOf(run_tree')
    /\ file' = ZeroOf(run_tree')
    /\ UNCHANGED <<inputs, result, modified, yielded, fsVars>>

----------------------------------------------------------------------------
(* Program::build_package_tree as a function of the index and the root: the
   same loops, run to their end; [ok |-> FALSE] stands for the Err of `?` *)

\* `for dependency in deps` from position k on, for an item whose depends list
\* is deps: the patch after it.
RECURSIVE ScanDepsStopAtKnown(_, _, _, _, _)
ScanDepsStopAtKnown(r, t, p, deps, k) ==
    IF k > Len(deps) THEN [ok |-> TRUE, patch |-> p]
    ELSE IF deps[k] \notin DOMAIN r THEN [ok |-> FALSE, patch |-> <<>>]
    ELSE IF deps[k] \in Range(t) \cup Range(p) THEN [ok |-> TRUE, patch |-> p]
    ELSE ScanDepsStopAtKnown(r, t, Append(p, deps[k]), deps, k + 1)

RECURSIVE ScanDeps(_, _, _, _, _)
ScanDeps(r, t, p, deps, k) ==
    IF k > Len(deps) THEN [ok |-> TRUE, patch |-> p]
    ELSE IF deps[k] \notin DOMAIN r THEN [ok |-> FALSE, patch |-> <<>>]
    ELSE ScanDeps(r, t,
                  IF deps[k] \notin Range(t) /\ deps[k] \notin Range(p)
                    THEN Append(p, deps[k]) ELSE p,
                  deps, k + 1)

\* `for item in tree.iter()` from position i on: the patch of the pass.
RECURSIVE ScanItems(_, _, _, _)
ScanItems(r, t, p, i) ==
    IF i > Len(t) THEN [ok |-> TRUE, patch |-> p]
    ELSE LET scanned == ScanDeps(r, t, p, r[t[i]], 1) IN
         IF ~scanned.ok THEN scanned ELSE ScanItems(r, t, scanned.patch, i + 1)

\* `loop { ... }`: passes until one stages nothing.
RECURSIVE Passes(_, _)
Passes(r, t) ==
    LET pass == ScanItems(r, t, <<>>, 1) IN
    IF ~pass.ok THEN [ok |-> FALSE, tree |-> <<>>]
    ELSE IF pass.patch = <<>> THEN [ok |-> TRUE, tree |-> t]
    ELSE Passes(r, t \o pass.patch)

\* build_package_tree(package) on the index r
build_package_tree(r, root) == Passes(r, <<root>>)

----------------------------------------------------------------------------
(* Archive entry paths and the filter of Program::extract_package *)

\* A path is the sequence of its characters.
Chars == {"a", ".", "/"}

\* Entry paths of an archive: relative, no empty component, no component that
\* is "." or "..".
WellFormed(f) ==
    /\ Len(f) >= 1
    /\ f[1] # "/"
    /\ \A i \in 1..Len(f) - 1 : ~(f[i] = "/" /\ f[i + 1] = "/")
    /\ \A i \in 1..Len(f) :
         LET opens == i = 1 \/ f[i - 1] = "/"
             dot == f[i] = "." /\ (i = Len(f) \/ f[i + 1] = "/")
             dotdot == /\ i < Len(f)
                       /\ f[i] = "." /\ f[i + 1] = "."
                       /\ (i + 1 = Len(f) \/ f[i + 2] = "/")
         IN opens => ~dot /\ ~dotdot

Paths == {f \in SeqsUpTo(Chars, MaxPathLen) : WellFormed(f)}

\* `file.ends_with('/')`
EndsWithSlashAtStart(f) == Len(f) > 0 /\ f[1] = "/"
EndsWithSlash(f) == Len(f) > 0 /\ f[Len(f)] = "/"

\* `file.starts_with('.')`
StartsWithDot(f) == Len(f) > 0 /\ f[1] = "."

\* A Regex of Config.exclude / Config.include: a literal pattern in which `.`
\* stands for any character, anchored at the start of the path (`^pat`) or not.
Rule(anchored, pat) == [anchored |-> anchored, pat |-> pat]

\* The rules tried: `^a/`, `^a`, `/`, `a.`
Rules ==
    {Rule(TRUE, <<"a", "/">>), Rule(TRUE, <<"a">>),
     Rule(FALSE, <<"/">>), Rule(FALSE, <<"a", ".">>)}

\* The rule lists tried: no rule given twice.
RuleLists == {l \in SeqsUpTo(Rules, MaxRules) : NoRepeat(l)}

MatchesAt(pat, f, at) ==
    /\ at + Len(pat) - 1 <= Len(f)
    /\ \A k \in 1..Len(pat) : pat[k] = "." \/ pat[k] = f[at + k - 1]

\* Regex::is_match
is_match(regex, f) ==
    \E at \in 1..(IF regex.anchored THEN 1 ELSE Len(f)) : MatchesAt(regex.pat, f, at)

\* `self.config.exclude.iter().any(|regex| regex.is_match(file))`
ExcludedByAll(f) ==
    exclude # <<>> /\ \A i \in 1..Len(exclude) : is_match(exclude[i], f)
Excluded(f) == \E i \in 1..Len(exclude) : is_match(exclude[i], f)

\* `self.config.include.is_empty() || self.config.include.iter().any(...)`
Included(f) ==
    include = <<>> \/ \E i \in 1..Len(include) : is_match(include[i], f)

\* The two `continue`s and the `if` of the loop of extract_package: whether
\* the loop body reaches uncompress_archive_file for this entry.
Extracts(f) ==
    /\ ~(EndsWithSlash(f) \/ StartsWithDot(f))
    /\ ~Excluded(f)
    /\ Included(f)

----------------------------------------------------------------------------
(* The archive of a package and the output tree *)

Entry(f, bytes) == [path |-> f, bytes |-> bytes]

\* list_archive_files: the paths of the entries, in archive order
list_archive_files(archive) == [i \in 1..Len(archive) |-> archive[i].path]

\* uncompress_archive_file: the bytes of the first entry with that path
uncompress_archive_file(archive, f) ==
    LET i == CHOOSE k \in 1..Len(archive) :
                 /\ archive[k].path = f
                 /\ \A m \in 1..k - 1 : archive[m].path # f
    IN archive[i].bytes

\* The directories `create_dir_all(path.parent().unwrap())` makes sure of, for
\* path = output.join(f); the output folder itself is <<>>.
Ancestors(f) == {<<>>} \cup {SubSeq(f, 1, i - 1) : i \in {k \in 1..Len(f) : f[k] = "/"}}

\* create_dir_all fails when something on the way exists and is no directory.
MkdirBlockedByExisting(f) ==
    \E d \in Ancestors(f) \ {<<>>} : d \in DOMAIN disk \/ d \in dirs

MkdirBlocked(f) == \E d \in Ancestors(f) : d \in DOMAIN disk

\* open(create, write, truncate) fails on a directory or under a missing one.
OpenBlocked(f) == f \in dirs \/ ~(Ancestors(f) \subseteq dirs)

\* `.truncate(true)`: the content of the file once it is open
KeepContent(f) == IF f \in DOMAIN disk THEN disk[f] ELSE <<>>
Truncated(f) == <<>>

\* write_all from the start of the file over what it holds
Overwrite(old, bytes) == bytes \o SubSeq(old, Len(bytes) + 1, Len(old))

SetFile(f, bytes) ==
    [q \in DOMAIN disk \cup {f} |-> IF q = f THEN bytes ELSE disk[q]]

----------------------------------------------------------------------------
(* Program::run: the window of buffer_unordered and the loop over it *)

Jobs == DOMAIN stage

Active == {j \in Jobs : stage[j] \notin {"unstarted", "ok", "failed"}}

\* BufferUnordered::poll_next fills its queue
\* `while in_progress_queue.len() < max` before it polls any queued job.
WindowHasRoomOffByOne == Cardinality(Active) <= parallelism
WindowHasRoomBelowMax == Cardinality(Active) + 1 < parallelism
WindowHasRoom == Cardinality(Active) < parallelism

StreamExhausted == next > Len(run_tree)

\* The queued jobs are polled once the queue is full or nothing is left to queue.
CanPoll == ~WindowHasRoom \/ StreamExhausted

\* The archive of job j, and the entry its loop is at
Archive(j) == payload[run_tree[j]]
Files(j) == list_archive_files(Archive(j))
File(j) == Files(j)[file[j]]

\* The next future of the stream is created and queued: process_package starts
\* and download_package sends its request.
StartJob ==
    /\ pc = "stream"
    /\ WindowHasRoom
    /\ ~StreamExhausted
    /\ stage' = [stage EXCEPT ![next] = "request"]
    /\ next' = next + 1
    /\ UNCHANGED <<inputs, pc, result, treeVars, run_tree, received, file,
                   yielded, fsVars>>

\* A queued job returns: download_stream yields its result to the loop of run,
\* which drops it (`if result.is_none() { break }` is all it looks at).
Yield(j, res) == Append(yielded, [job |-> j, result |-> res])

\* request_package answered with a response that declares its length.
ResponseArrives(j) ==
    /\ pc = "stream" /\ CanPoll
    /\ stage[j] = "request"
    /\ stage' = [stage EXCEPT ![j] = "chunk"]
    /\ UNCHANGED <<inputs, pc, result, treeVars, run_tree, next, received,
                   file, yielded, fsVars>>

\* `response.content_length().unwrap()` on a response without a length panics.
ResponseWithoutLength(j) ==
    /\ pc = "stream" /\ CanPoll
    /\ stage[j] = "request"
    /\ pc' = "panicked"
    /\ UNCHANGED <<inputs, result, treeVars, run_tree, jobVars, fsVars>>

\* `response.chunk().await?` is Some(chunk)
ChunkArrives(j) ==
    /\ pc = "stream" /\ CanPoll
    /\ stage[j] = "chunk"
    /\ received[j] < TotalChunks
    /\ received' = [received EXCEPT ![j] = @ + 1]
    /\ UNCHANGED <<inputs, pc, result, treeVars, run_tree, next, stage, file,
                   yielded, fsVars>>

\* `response.chunk().await?` is None: download_package returns the buffer.
DownloadCompletesEarly(j) ==
    /\ pc = "stream" /\ CanPoll
    /\ stage[j] = "chunk"
    /\ stage' = [stage EXCEPT ![j] = "list"]
    /\ UNCHANGED <<inputs, pc, result, treeVars, run_tree, next, received,
                   file, yielded, fsVars>>

DownloadCompletes(j) ==
    /\ pc = "stream" /\ CanPoll
    /\ stage[j] = "chunk"
    /\ received[j] = TotalChunks
    /\ stage' = [stage EXCEPT ![j] = "list"]
    /\ UNCHANGED <<inputs, pc, result, treeVars, run_tree, next, received,
                   file, yielded, fsVars>>

\* `list_archive_files(&archive[..])?` returns the paths; the loop begins.
ListFiles(j) ==
    /\ pc = "stream" /\ CanPoll
    /\ stage[j] = "list"
    /\ stage' = [stage EXCEPT ![j] = "files"]
    /\ file' = [file EXCEPT ![j] = 1]
    /\ UNCHANGED <<inputs, pc, result, treeVars, run_tree, next, received,
                   yielded, fsVars>>

\* One entry the loop passes over with `continue` or a false `if`.
SkipFile(j) ==
    /\ pc = "stream" /\ CanPoll
    /\ stage[j] = "files"
    /\ file[j] <= Len(Files(j))
    /\ ~Extracts(File(j))
    /\ file' = [file EXCEPT ![j] = @ + 1]
    /\ UNCHANGED <<inputs, pc, result, treeVars, run_tree, next, stage,
                   received, yielded, fsVars>>

\* One entry the loop extracts: uncompress_archive_file fills `vec`.
UncompressFile(j) ==
    /\ pc = "stream" /\ CanPoll
    /\ stage[j] = "files"
    /\ file[j] <= Len(Files(j))
    /\ Extracts(File(j))
    /\ stage' = [stage EXCEPT ![j] = "mkdir"]
    /\ UNCHANGED <<inputs, pc, result, treeVars, run_tree, next, received,
                   file, yielded, fsVars>>

\* `tokio::fs::create_dir_all(path.parent().unwrap()).await?`
CreateDirAll(j) ==
    /\ pc = "stream" /\ CanPoll
    /\ stage[j] = "mkdir"
    /\ ~MkdirBlocked(File(j))
    /\ dirs' = dirs \cup Ancestors(File(j))
    /\ stage' = [stage EXCEPT ![j] = "open"]
    /\ UNCHANGED <<inputs, pc, result, treeVars, run_tree, next, received,
                   file, yielded, disk>>

\* `OpenOptions::new().create(true).write(true).truncate(true).open(&path)`
OpenFile(j) ==
    /\ pc = "stream" /\ CanPoll
    /\ stage[j] = "open"
    /\ ~OpenBlocked(File(j))
    /\ disk' = SetFile(File(j), Truncated(File(j)))
    /\ stage' = [stage EXCEPT ![j] = "write"]
    /\ UNCHANGED <<inputs, pc, result, treeVars, run_tree, next, received,
                   file, yielded, dirs>>

\* `fs_file.write_all(&vec[..]).await?; fs_file.flush().await?`, then the next
\* entry.
WriteFile(j) ==
    /\ pc = "stream" /\ CanPoll
    /\ stage[j] = "write"
    /\ disk' = SetFile(File(j),
                   Overwrite(disk[File(j)],
                             uncompress_archive_file(Archive(j), File(j))))
    /\ stage' = [stage EXCEPT ![j] = "files"]
    /\ file' = [file EXCEPT ![j] = @ + 1]
    /\ UNCHANGED <<inputs, pc, result, treeVars, run_tree, next, received,
                   yielded, dirs>>

\* The loop of extract_package is over: process_package returns Ok(()).
JobSucceeds(j) ==
    /\ pc = "stream" /\ CanPoll
    /\ stage[j] = "files"
    /\ file[j] > Len(Files(j))
    /\ stage' = [stage EXCEPT ![j] = "ok"]
    /\ yielded' = Yield(j, Ok)
    /\ UNCHANGED <<inputs, pc, result, treeVars, run_tree, next, received,
                   file, fsVars>>

\* The error a `?` of the job returns where the job is.
ErrorAt(j) ==
    CASE stage[j] \in {"request", "chunk"} -> Err("DownloadFailure", run_tree[j])
      [] stage[j] \in {"list", "files"} -> Err("ExtractionFailure", run_tree[j])
      [] OTHER -> Err("FilesystemFailure", run_tree[j])

\* A `?` of the job returns an error: the request or a chunk fails, the archive
\* cannot be listed or the entry not be extracted, or a file system call fails
\* (always so when MkdirBlocked or OpenBlocked).
JobFailsAndCleansUp(j) ==
    /\ pc = "stream" /\ CanPoll
    /\ \/ stage[j] \in {"request", "chunk", "list", "mkdir", "open", "write"}
       \/ /\ stage[j] = "files"
          /\ file[j] <= Len(Files(j))
          /\ Extracts(File(j))
    /\ stage' = [stage EXCEPT ![j] = "failed"]
    /\ yielded' = Yield(j, ErrorAt(j))
    /\ disk' = [q \in DOMAIN disk \ Range(Files(j)) |-> disk[q]]
    /\ UNCHANGED <<inputs, pc, result, treeVars, run_tree, next, received,
                   file, dirs>>

JobFails(j) ==
    /\ pc = "stream" /\ CanPoll
    /\ \/ stage[j] \in {"request", "chunk", "list", "mkdir", "open", "write"}
       \/ /\ stage[j] = "files"
          /\ file[j] <= Len(Files(j))
          /\ Extracts(File(j))
    /\ stage' = [stage EXCEPT ![j] = "failed"]
    /\ yielded' = Yield(j, ErrorAt(j))
    /\ UNCHANGED <<inputs, pc, result, treeVars, run_tree, next, received,
                   file, fsVars>>

\* download_stream yields None: `break`, and run returns `Ok(())`.
StreamEndsOnError == (StreamExhausted /\ Active = {}) \/ (\E j \in Jobs : stage[j] = "failed")
StreamEnds == StreamExhausted /\ Active = {}

RunReturns ==
    /\ pc = "stream"
    /\ StreamEnds
    /\ pc' = "done"
    /\ result' = Ok
    /\ UNCHANGED <<inputs, treeVars, run_tree, jobVars, fsVars>>

NextRun ==
    \/ StartJob
    \/ \E j \in Jobs : ResponseArrives(j)
    \/ \E j \in Jobs : ResponseWithoutLength(j)
    \/ \E j \in Jobs : ChunkArrives(j)
    \/ \E j \in Jobs : DownloadCompletes(j)
    \/ \E j \in Jobs : ListFiles(j)
    \/ \E j \in Jobs : SkipFile(j)
    \/ \E j \in Jobs : UncompressFile(j)
    \/ \E j \in Jobs : CreateDirAll(j)
    \/ \E j \in Jobs : OpenFile(j)
    \/ \E j \in Jobs : WriteFile(j)
    \/ \E j \in Jobs : JobSucceeds(j)
    \/ \E j \in Jobs : JobFails(j)
    \/ RunReturns

----------------------------------------------------------------------------
(* Resolver specification: every index over Names within the bounds, any set
   of its names present, root "A" *)

NoPayload == [n \in Names |-> <<>>]

InitTree ==
    /\ \E S \in SUBSET Names : repository \in [S -> DependsLists]
    /\ References(repository) <= MaxEdges
    /\ package = "A"
    /\ parallelism = 1
    /\ exclude = <<>>
    /\ include = <<>>
    /\ payload = NoPayload
    /\ pc = "start"
    /\ result = NoResult
    /\ tree = <<>>
    /\ patch = <<>>
    /\ modified = FALSE
    /\ item = 0
    /\ dependency = 0
    /\ run_tree = <<>>
    /\ next = 0
    /\ stage = <<>>
    /\ received = <<>>
    /\ file = <<>>
    /\ yielded = <<>>
    /\ dirs = {<<>>}
    /\ disk = <<>>

NextTree ==
    \/ RunStart
    \/ ScanDependency
    \/ NextItem
    \/ MergePatch
    \/ ReturnTree

SpecTree == InitTree /\ [][NextTree]_vars

\* run is straight-line code: it keeps going while it has a step to take.
SpecTreeLive == SpecTree /\ WF_vars(NextTree)

----------------------------------------------------------------------------
(* Filter specification: one package with one archive entry, every path and
   every pair of rule lists; the run is at the start of its stream *)

InitExtract ==
    /\ repository = [n \in {"A"} |-> <<>>]
    /\ package = "A"
    /\ parallelism = 1
    /\ exclude \in RuleLists
    /\ include \in RuleLists
    /\ \E f \in Paths :
         payload = [n \in Names |-> IF n = "A" THEN <<Entry(f, <<1>>)>> ELSE <<>>]
    /\ pc = "stream"
    /\ result = NoResult
    /\ tree = <<>>
    /\ patch = <<>>
    /\ modified = FALSE
    /\ item = 0
    /\ dependency = 0
    /\ run_tree = <<"A">>
    /\ next = 1
    /\ stage = JobsOf(run_tree)
    /\ received = ZeroOf(run_tree)
    /\ file = ZeroOf(run_tree)
    /\ yielded = <<>>
    /\ dirs = {<<>>}
    /\ disk = <<>>

SpecExtract == InitExtract /\ [][NextRun]_vars

----------------------------------------------------------------------------
(* Writer specification: two packages in the window, each with one archive
   entry, on every pair of distinct entry paths; no rules *)

\* Entry paths tried: files at the top and under a shared directory, a file
\* whose name is the directory of another, a directory entry, a hidden file.
Destinations ==
    {<<"a">>, <<"b">>, <<"a", "/", "a">>, <<"a", "/", "b">>, <<"a", "/">>,
     <<".", "a">>}

InitWrite ==
    /\ repository = [n \in {"A", "B"} |-> IF n = "A" THEN <<"B">> ELSE <<>>]
    /\ package = "A"
    /\ parallelism \in 1..MaxParallelism
    /\ exclude = <<>>
    /\ include = <<>>
    /\ \E f \in Destinations :
       \E g \in Destinations \ {f} :
         payload = [n \in Names |->
                       IF n = "A" THEN <<Entry(f, <<1, 2>>)>>
                       ELSE IF n = "B" THEN <<Entry(g, <<3>>)>>
                       ELSE <<>>]
    /\ pc = "stream"
    /\ result = NoResult
    /\ tree = <<>>
    /\ patch = <<>>
    /\ modified = FALSE
    /\ item = 0
    /\ dependency = 0
    /\ run_tree = <<"A", "B">>
    /\ next = 1
    /\ stage = JobsOf(run_tree)
    /\ received = ZeroOf(run_tree)
    /\ file = ZeroOf(run_tree)
    /\ yielded = <<>>
    /\ dirs = {<<>>}
    /\ disk = <<>>

SpecWrite == InitWrite /\ [][NextRun]_vars

----------------------------------------------------------------------------
(* The whole program on a few indexes with fixed archives and rules *)

Order == <<"A", "B", "C", "D">>

\* The first k packages, each depending on the next; the last one depends on
\* nothing, or (looped) on the package after it: a missing one, or "A" again.
Chain(k, looped) ==
    [n \in {Order[i] : i \in 1..k} |->
        LET i == CHOOSE m \in 1..k : Order[m] = n IN
        IF i < k THEN <<Order[i + 1]>>
        ELSE IF looped THEN <<Order[(i % 4) + 1]>> ELSE <<>>]

Chains == {Chain(k, looped) : k \in 0..4, looped \in BOOLEAN}

Archives ==
    [n \in Names |->
        CASE n = "A" -> <<Entry(<<"a", "/", "a">>, <<1, 2>>), Entry(<<"a", "/">>, <<>>)>>
          [] n = "B" -> <<Entry(<<".", "a">>, <<9>>), Entry(<<"a", "/", "a">>, <<3>>)>>
          [] n = "C" -> <<Entry(<<"a", "/", "b">>, <<4>>)>>
          [] OTHER -> <<Entry(<<"b">>, <<5>>)>>]

\* The text of a number, as the digits of its decimal notation
RECURSIVE to_string(_)
to_string(n) == IF n < 10 THEN <<n>> ELSE Append(to_string(n \div 10), n % 10)

\* u32::from_str on a text of digits; a text of any other kind, or of a number
\* that does not fit 32 bits, makes to_config panic and is not among the
\* texts tried.
RECURSIVE u32_from_str(_)
u32_from_str(text) ==
    IF Len(text) = 0 THEN 0
    ELSE 10 * u32_from_str(SubSeq(text, 1, Len(text) - 1)) + text[Len(text)]

\* The values of `-p` tried: <<>> when the option is not given, or a text of
\* one or two digits of a number up to MaxParallelism.
ParallelismArgs ==
    {<<>>} \cup {text \in [1..1 -> 0..9] \cup [1..2 -> 0..9] :
                    u32_from_str(text) <= MaxParallelism}

\* The processing units of the host: num_cpus::get() is at least 1.
CpuCounts == 1..MaxParallelism

\* IntoConfig::to_config, the parallelism field:
\* `u32::from_str(&self.value_of("parallelism").unwrap_or(&cpu_count)...)`
to_config_parallelism(arg, cpus) ==
    u32_from_str(IF arg = <<>> THEN to_string(cpus) ELSE arg)

Init ==
    /\ repository \in Chains
    /\ package = "A"
    /\ \E arg \in ParallelismArgs, cpus \in CpuCounts :
         parallelism = to_config_parallelism(arg, cpus)
    /\ exclude = <<Rule(TRUE, <<"b">>)>>
    /\ include = <<Rule(FALSE, <<"a">>), Rule(FALSE, <<"b">>)>>
    /\ payload = Archives
    /\ pc = "start"
    /\ result = NoResult
    /\ tree = <<>>
    /\ patch = <<>>
    /\ modified = FALSE
    /\ item = 0
    /\ dependency = 0
    /\ run_tree = <<>>
    /\ next = 0
    /\ stage = <<>>
    /\ received = <<>>
    /\ file = <<>>
    /\ yielded = <<>>
    /\ dirs = {<<>>}
    /\ disk = <<>>

Next == NextTree \/ NextRun

Spec == Init /\ [][Next]_vars

\* The program keeps going while it has a step to take: run is polled until it
\* returns, and every request, chunk and file system call comes to an end.
SpecLive == Spec /\ WF_vars(Next)


----------------------------------------------------------------------------
(* Claims about the resolver *)

\* The names reachable from a set of names through dependency references,
\* whether or not the index has them.
RECURSIVE ReachableFrom(_)
ReachableFrom(S) ==
    LET more == S \cup UNION {Range(repository[n]) : n \in S \cap DOMAIN repository}
    IN IF more = S THEN S ELSE ReachableFrom(more)

AllResolve == ReachableFrom({package}) \subseteq DOMAIN repository

Diamond ==
    [n \in Names |-> IF n = "A" THEN <<"B", "C">>
                     ELSE IF n = "D" THEN <<>> ELSE <<"D">>]

\* C5: when every name reachable from the root resolves, build_package_tree
\* returns (it does not fail), and the tree it returns holds the root and every
\* package reachable from it, each exactly once, and nothing else.
C5_TreeIsExactlyTheClosure ==
    /\ pc \in {"stream", "done"} /\ result.tag # "PackageNotFound"
         => /\ NoRepeat(run_tree)
            /\ Range(run_tree) = ReachableFrom({package})
    /\ AllResolve => result.tag # "PackageNotFound"

C5_Witness ==
    /\ repository = Diamond
    /\ pc = "stream"
    /\ Range(run_tree) = {"A", "B", "C", "D"}
    /\ Len(run_tree) = 4

\* C6: when a package of the closure under construction names a dependency the
\* index does not have, build_package_tree fails with PackageNotFound carrying
\* the name of such a missing dependency, and run gets no tree, not even a
\* partial one.
C6_MissingDependencyFails ==
    (pc \notin {"start", "scan"} /\ get_package_by_name(package) /\ ~AllResolve)
        => /\ pc = "done"
           /\ result.tag = "PackageNotFound"
           /\ ~get_package_by_name(result.what)
           /\ \E n \in ReachableFrom({package}) \cap DOMAIN repository :
                  result.what \in Range(repository[n])
           /\ run_tree = <<>>
           /\ stage = <<>>

C6_Witness ==
    /\ result = PackageNotFound("C")
    /\ repository = [n \in {"A", "B"} |-> IF n = "A" THEN <<"B">> ELSE <<"A", "C">>]
    /\ run_tree = <<>>

\* C7: when the index has no entry for the root name, run fails with the
\* missing-package error carrying the root name.
C7_MissingRootIsAnError ==
    (pc # "start" /\ ~get_package_by_name(package))
        => result = PackageNotFound(package)

\* The orders a list can be in
OrdersOf(l) ==
    {q \in [1..Len(l) -> Range(l)] : \A x \in Range(l) : \E i \in 1..Len(l) : q[i] = x}

\* The indexes that differ from r only in the order of the depends lists
RECURSIVE ReorderedOn(_, _)
ReorderedOn(r, S) ==
    IF S = {} THEN {r}
    ELSE LET n == CHOOSE x \in S : TRUE IN
         {[q EXCEPT ![n] = o] : q \in ReorderedOn(r, S \ {n}), o \in OrdersOf(r[n])}

Reorderings(r) == ReorderedOn(r, DOMAIN r)

\* C11: whatever the order of the dependency references (and with it the order
\* in which the members of the tree are scanned), build_package_tree returns
\* the same set of packages as the run did, or fails as the run did.
C11_SetIsOrderIndependent ==
    pc \in {"stream", "done"} =>
        \A q \in Reorderings(repository) :
            LET other == build_package_tree(q, package) IN
            /\ other.ok <=> result.tag # "PackageNotFound"
            /\ other.ok => Range(other.tree) = Range(run_tree)

\* Another order of the references gives the same set in another sequence.
C11_Witness ==
    /\ pc = "stream"
    /\ \E q \in Reorderings(repository) :
         /\ build_package_tree(q, package).tree # run_tree
         /\ Range(build_package_tree(q, package).tree) = Range(run_tree)

TreeBuilt == pc \in {"stream", "done", "panicked"}

\* C12: build_package_tree comes to its end (a tree, or the error of a missing
\* dependency) on every index, cyclic ones included, and scanning a reference
\* of a package to itself stages nothing.
C12_TreeTerminates ==
    /\ <>TreeBuilt
    /\ [][(pc = "scan" /\ pc' = "scan" /\ dependency' = dependency + 1
             /\ depends(tree[item])[dependency] = tree[item])
            => patch' = patch /\ tree' = tree]_vars

\* A cycle A -> B -> A with A naming itself too: the tree is A, B.
C12_Witness ==
    /\ pc = "stream"
    /\ repository = [n \in {"A", "B"} |-> IF n = "A" THEN <<"A", "B">> ELSE <<"A">>]
    /\ run_tree = <<"A", "B">>

\* C13: all through build_package_tree no package is twice in the tree, none
\* twice in the patch, none in both, and the root is in the tree.
C13_NoDuplicatesAndRootKept ==
    pc = "scan" =>
        /\ NoRepeat(tree)
        /\ NoRepeat(patch)
        /\ Range(tree) \cap Range(patch) = {}
        /\ package \in Range(tree)

\* A later pass with something staged, at a reference already in the tree.
C13_Witness ==
    /\ pc = "scan"
    /\ Len(tree) >= 2
    /\ patch # <<>>
    /\ item <= Len(tree)
    /\ dependency <= Len(depends(tree[item]))
    /\ depends(tree[item])[dependency] \in Range(tree)

----------------------------------------------------------------------------
(* Claims about the loop of run *)

Failures == {i \in 1..Len(yielded) : yielded[i].result.tag # "Ok"}

FirstFailure == yielded[CHOOSE i \in Failures : \A k \in Failures : i <= k].result

\* C1: with parallelism P >= 1, the package jobs started and not yet finished
\* are at most P.
C1_AtMostPActive ==
    parallelism >= 1 => Cardinality(Active) <= parallelism

C1_Witness ==
    /\ parallelism = 2
    /\ Len(run_tree) = 4
    /\ Cardinality(Active) = 2
    /\ \E j \in Jobs : stage[j] = "unstarted"
    /\ \E j \in Jobs : stage[j] \in {"ok", "failed"}

\* C2: when a package job failed, run returns an error, the one of the first
\* job that failed.
C2_FirstFailureIsReturned ==
    (pc = "done" /\ Failures # {}) => result = FirstFailure

\* C3: once the loop of run has got the error of a package job, no package job
\* that has not started is started.
C3_NoStartAfterFailure ==
    [][(\E j \in Jobs : stage[j] = "failed")
          => \A j \in Jobs : stage[j] = "unstarted" => stage'[j] = "unstarted"]_vars

\* C4: run returns only when every package job that was started has finished
\* and handed its own result to the loop; a job in flight when another one
\* fails is among them.
C4_ReturnsAfterStartedJobsFinish ==
    pc = "done" =>
        \A j \in Jobs :
            stage[j] # "unstarted" =>
                /\ stage[j] \in {"ok", "failed"}
                /\ Cardinality({i \in 1..Len(yielded) : yielded[i].job = j}) = 1

\* A job started before the failing one yields Ok after the failure.
C4_Witness ==
    /\ pc = "done"
    /\ \E i, k \in 1..Len(yielded) :
         /\ i < k
         /\ yielded[i].result.tag # "Ok"
         /\ yielded[k].job < yielded[i].job
         /\ yielded[k].result = Ok

----------------------------------------------------------------------------
(* Claims about the filter and the writer *)

\* The policy: not a directory, not hidden, matched by no exclude rule, and
\* matched by an include rule unless there is none.
ShouldExtract(f) ==
    /\ f[Len(f)] # "/"
    /\ f[1] # "."
    /\ \A i \in 1..Len(exclude) : ~is_match(exclude[i], f)
    /\ (Len(include) = 0 \/ \E i \in 1..Len(include) : is_match(include[i], f))

\* C8: an entry the loop of extract_package has dealt with is on disk if and
\* only if the policy admits its path, and nothing else is on disk.
C8_WrittenIffPolicyAdmits ==
    /\ \A j \in Jobs : \A i \in 1..Len(Archive(j)) :
         i < file[j] =>
             (Files(j)[i] \in DOMAIN disk <=> ShouldExtract(Files(j)[i]))
    /\ \A f \in DOMAIN disk : ShouldExtract(f)

\* An entry that an exclude and an include rule both match was passed over.
C8_Witness ==
    /\ stage[1] = "ok"
    /\ LET f == Files(1)[1] IN
         /\ f[Len(f)] # "/" /\ f[1] # "."
         /\ \E i \in 1..Len(exclude) : is_match(exclude[i], f)
         /\ \E i \in 1..Len(include) : is_match(include[i], f)
         /\ f \notin DOMAIN disk

\* C9: no file is ever written, created or about to be, whose entry path ends
\* with the separator (a directory) or starts with a dot (hidden).
C9_NoDirectoryOrHiddenWritten ==
    /\ \A f \in DOMAIN disk : f[Len(f)] # "/" /\ f[1] # "."
    /\ \A j \in Jobs :
         stage[j] \in {"mkdir", "open", "write"} =>
             File(j)[Len(File(j))] # "/" /\ File(j)[1] # "."

\* A hidden entry that an include rule matches and no exclude rule does was
\* passed over, and so was a directory entry with no rules at all.
C9_Witness ==
    /\ stage[1] = "ok"
    /\ disk = <<>>
    /\ LET f == Files(1)[1] IN
         /\ f[1] = "." /\ f[Len(f)] # "/"
         /\ \A i \in 1..Len(exclude) : ~is_match(exclude[i], f)
         /\ \E i \in 1..Len(include) : is_match(include[i], f)

\* C10: with one job at a time, when a job has finished and no later one has
\* started, every entry it wrote holds exactly the bytes of that entry, whatever
\* an earlier job left at the same destination, and the parent directories of
\* the destination exist.
C10_SecondWriteReplacesFirst ==
    parallelism = 1 =>
        \A j \in Jobs :
            (stage[j] = "ok" /\ \A k \in Jobs : k > j => stage[k] = "unstarted") =>
                \A i \in 1..Len(Archive(j)) :
                    LET f == Archive(j)[i].path IN
                    ShouldExtract(f) =>
                        /\ f \in DOMAIN disk
                        /\ disk[f] = uncompress_archive_file(Archive(j), f)
                        /\ \A n \in 1..Len(f) : f[n] = "/" => SubSeq(f, 1, n - 1) \in dirs

\* "B" wrote <<3>> where "A" had written <<1, 2>> under a directory "A" made.
C10_Witness ==
    /\ parallelism = 1
    /\ Len(run_tree) >= 2
    /\ stage[1] = "ok" /\ stage[2] = "ok"
    /\ <<"a", "/", "a">> \in DOMAIN disk
    /\ disk[<<"a", "/", "a">>] = <<3>>
    /\ <<"a">> \in dirs

----------------------------------------------------------------------------
(* Claims about the order of the steps of a run *)

ResultOf(j) == yielded[CHOOSE i \in 1..Len(yielded) : yielded[i].job = j].result

\* C14: a package job lists or extracts its archive only once all the chunks
\* of its download have arrived, and a job whose download failed has listed,
\* extracted and written nothing.
C14_DownloadBeforeExtraction ==
    \A j \in Jobs :
        /\ stage[j] \in {"list", "files", "mkdir", "open", "write", "ok"}
             => received[j] = TotalChunks
        /\ file[j] > 0 => received[j] = TotalChunks
        /\ (stage[j] = "failed" /\ ResultOf(j).tag = "DownloadFailure") => file[j] = 0

\* One job is extracting while the download of another has failed half-way.
C14_Witness ==
    /\ \E j \in Jobs : stage[j] = "write" /\ received[j] = TotalChunks
    /\ \E j \in Jobs :
         /\ stage[j] = "failed"
         /\ ResultOf(j).tag = "DownloadFailure"
         /\ file[j] = 0

\* C15: no package job starts before build_package_tree has returned the whole
\* closure, and when it fails with a missing dependency no job ever starts and
\* nothing is written.
C15_ResolutionBeforeDownloads ==
    /\ (\E j \in Jobs : stage[j] # "unstarted")
         => /\ pc \in {"stream", "done", "panicked"}
            /\ Range(run_tree) = ReachableFrom({package})
    /\ (pc \in {"start", "scan"} \/ result.tag = "PackageNotFound")
         => /\ Jobs = {}
            /\ yielded = <<>>
            /\ disk = <<>>
            /\ dirs = {<<>>}

\* The first job has started on a closure of three packages.
C15_Witness ==
    /\ Len(run_tree) >= 3
    /\ stage[1] = "request"

AllJobsDone ==
    /\ pc = "done"
    /\ result = Ok
    /\ Range(run_tree) = ReachableFrom({package})
    /\ \A j \in Jobs :
         /\ stage[j] = "ok"
         /\ Cardinality({i \in 1..Len(yielded) : yielded[i].job = j}) = 1
         /\ received[j] = TotalChunks
         /\ \A i \in 1..Len(Archive(j)) :
              Extracts(Archive(j)[i].path) => Archive(j)[i].path \in DOMAIN disk

\* C16: with P >= 1 and a closure that resolves, unless a job fails or the run
\* panics, run eventually returns Ok(()) with every package of the closure
\* started and finished exactly once, downloaded and its admitted entries
\* written.
C16_EveryPackageProcessed ==
    <>(\/ parallelism < 1
       \/ ~get_package_by_name(package)
       \/ ~AllResolve
       \/ Failures # {}
       \/ pc = "panicked"
       \/ AllJobsDone)

C16_Witness ==
    /\ AllJobsDone
    /\ Len(run_tree) = 4
    /\ parallelism = 2

\* C17: a response that declares no length does not abort the run: nothing that
\* happens to a job while the stream is polled ends the run in a panic.
C17_DownloadWithoutLengthCompletes ==
    [][pc = "stream" => pc' # "panicked"]_vars

\* C18: the step in which a job fails changes no file and no directory, no
\* file is ever removed, and a failed job stays failed: it is not downloaded or
\* extracted again.
C18_FailureLeavesOutputInPlace ==
    [][/\ \A j \in Jobs :
            /\ (stage[j] # "failed" /\ stage'[j] = "failed")
                 => disk' = disk /\ dirs' = dirs
            /\ stage[j] = "failed"
                 => stage'[j] = "failed" /\ received'[j] = received[j]
                                          /\ file'[j] = file[j]
       /\ DOMAIN disk \subseteq DOMAIN disk'
       /\ dirs \subseteq dirs']_vars

\* "B" has failed after "A" wrote a/a; the file is as "A" left it.
C18_Witness ==
    /\ pc = "done"
    /\ Len(run_tree) >= 2
    /\ stage[1] = "ok" /\ stage[2] = "failed"
    /\ ResultOf(2).tag = "FilesystemFailure"
    /\ <<"a", "/", "a">> \in DOMAIN disk
    /\ disk[<<"a", "/", "a">>] = <<1, 2>>

\* C20: the parallelism the configuration hands to the window is at least 1,
\* so that a window with no active job and packages left always admits one.
C20_ParallelismIsPositive ==
    pc = "stream" =>
        /\ parallelism >= 1
        /\ (Active = {} /\ ~StreamExhausted) => WindowHasRoom

----------------------------------------------------------------------------
(* Claims about jobs that write side by side *)

\* The entries of job j that extract_package writes
WrittenBy(j) == {f \in Range(Files(j)) : Extracts(f)}

\* No job is at a file system call that another job's file or directory makes
\* fail.
NoJobBlocked ==
    \A j \in Jobs :
        /\ stage[j] = "mkdir" => ~MkdirBlocked(File(j))
        /\ stage[j] = "open" => ~OpenBlocked(File(j))

\* The file of every entry a finished job wrote holds that entry's bytes.
OwnBytesOnDisk ==
    \A j \in Jobs : stage[j] = "ok" =>
        \A f \in WrittenBy(j) :
            /\ f \in DOMAIN disk
            /\ disk[f] = uncompress_archive_file(Archive(j), f)

\* No destination of one job is a directory on the way to a destination of
\* another.
NoDestinationIsParent ==
    \A j \in Jobs, k \in Jobs :
        j # k => \A f \in WrittenBy(j), g \in WrittenBy(k) : f \notin Ancestors(g)

\* C19 as stated: jobs that write distinct paths never make each other fail,
\* and every file ends with the bytes of its own entry.
C19_DistinctPathsNeverConflict ==
    NoJobBlocked /\ OwnBytesOnDisk

\* C19: jobs that write distinct paths, none of which is a parent directory
\* of another's destination, never make each other fail (a directory that
\* already exists is no error), and every file ends with the bytes of its own
\* entry.
C19_UnrelatedPathsNeverConflict ==
    NoDestinationIsParent => NoJobBlocked /\ OwnBytesOnDisk

\* Both jobs have written under the directory "a", which the first to come
\* created while the other was active.
C19_Witness ==
    /\ parallelism = 2
    /\ stage[1] = "ok" /\ stage[2] = "ok"
    /\ yielded[1].job = 2
    /\ WrittenBy(1) = {<<"a", "/", "a">>}
    /\ WrittenBy(2) = {<<"a", "/", "b">>}
    /\ disk[<<"a", "/", "a">>] = <<1, 2>>
    /\ disk[<<"a", "/", "b">>] = <<3>>

====
